---- MODULE Spec2Model ----
(***************************************************************************)
(* Jal-Drishti backend: the Source Manager (source_manager.py), the paced  *)
(* FrameScheduler with its background ML worker (frame_scheduler.py) and   *)
(* the phone upload endpoint (phone_upload.py), as interleaved threads.    *)
(*                                                                         *)
(* Threads: the API thread that runs switch_source, one scheduler thread   *)
(* and one ML-worker thread per FrameScheduler object, one watchdog thread *)
(* per camera attach, and the phone connections' handlers.  A blocking     *)
(* join(timeout=...) is a step that is enabled when the joined thread has  *)
(* ended and also, as the timeout, when it has not.                        *)
(***************************************************************************)
EXTENDS Integers, FiniteSets, Sequences, TLC

\* ---- bounds of the model ----
MaxSched == 2      \* FrameScheduler objects (= successful attaches) created
MaxFrames == 3     \* frames yielded by all sources together
MaxAge == 18       \* seconds up to which the age of _frame_age is counted
MaxPhones == 1     \* phone connections that run against the manager's clock
MaxUploads == 2    \* phone connections that reach the upload endpoint
MaxGap == 3        \* throttle ticks up to which the time since a frame is counted
MaxConns == 2      \* dashboard clients with a /ws/stream socket
MaxRawConns == 1   \* of them, those that also open a raw socket
MaxMsgs == 2       \* broadcast calls, enhanced and raw together
MaxLate == 6       \* clock ticks up to which the pacing's time differences are counted

\* ---- program constants ----
CAMERA_TIMEOUT_SECONDS == 15   \* SourceManager._camera_timeout_seconds
POLL_SECONDS == 2              \* time.sleep(2.0) in the watchdog loop
JOIN_TIMEOUT_SECONDS == 2      \* _scheduler_thread.join(timeout=2.0)
FRAME_INTERVAL == 4            \* phone_upload.FRAME_INTERVAL, in ticks of 1/48 s
MAX_FAILURES_BEFORE_SAFE_MODE == 2   \* MLService.max_failures_before_safe_mode
frame_interval == 4            \* FrameScheduler.frame_interval at 12 fps, in ticks of 1/48 s

Scheds == 1..MaxSched
Phones == 1..MaxUploads
CamPhones == 1..MaxPhones
NoFrame == 0
NoTs == -1
NoResult == [src |-> 0, frame |-> 0, state |-> "none", ml_available |-> FALSE,
             detections |-> "empty"]
SourceTypes == {"video", "camera"}
Outcomes == {"fast", "slow", "raise"}
\* MLService.run_inference catches every exception and returns a result
MLServiceOutcomes == {"fast", "slow"}
Conns == 1..MaxConns
RawConns == 1..MaxRawConns
\* viewer_id is sent by the client: two clients may send the same one
ViewerIds == 1..MaxConns
Msgs == 1..MaxMsgs
Channels == {"enhanced", "raw"}
\* how an awaited wait_for(connection.send_json(...), timeout=0.1) ends
EnhancedOutcomes == {"ok", "timeout", "error"}
RawOutcomes == {"ok", "timeout", "disconnect", "closed_error", "other_error"}

VARIABLES
    \* SourceManager
    state,                 \* _state: SourceState
    current_source_type,   \* _current_source_type: "none" | "video" | "camera"
    current_source,        \* _current_source: the attach bound, 0 = None
    scheduler,             \* _scheduler / _scheduler_thread: latest created, 0 = None
    shutdown_event,        \* _shutdown_event, shared by every scheduler
    timeout_active,        \* _timeout_active
    frame_age,             \* time.time() - _frame_age in seconds, NoTs = None
    mgrPc,                 \* position of the thread inside switch_source
    mgrReq,                \* source_type of the switch in progress
    mgrPath,               \* the switch in progress: "found" | "missing" requested file
    response,              \* the dict the last switch_source call returned
    nSched,                \* FrameScheduler objects created so far
    \* FrameScheduler objects, indexed by attach
    schedPc,               \* position of the run() thread
    curFrame,              \* frame the loop body is working on
    nextFrame,             \* frames the bound source has yielded
    ml_ready,              \* ml_ready Event
    latest_frame,          \* latest_frame slot, NoFrame = None
    ml_stop,               \* ml_stop Event
    last_ml_result,        \* last_ml_result, NoResult = None
    in_safe_mode,          \* in_safe_mode
    workerPc,              \* position of the _ml_worker thread
    workerFrame,           \* frame the worker's inference call runs on
    srcStopped,            \* stop() was called on the attach's source
    srcKind,               \* "video" | "camera": the kind of the attach's source
    \* watchdog threads, indexed by attach
    wdPc,                  \* position of _monitor_camera_timeout_frame_driven
    wdSleep,               \* seconds left of its time.sleep(2.0)
    \* clock
    joinLeft,              \* seconds left of the manager's join(timeout=2.0)
    \* phone ingress
    active_phone,          \* _active_phone, 0 = None
    phoneSt,               \* per connection: "none" | "accepting" | "open" | "closed" | "gone"
    phoneSlot,             \* the phone source's queue holds a frame
    sinceFrame,            \* per connection: time.time() - last_frame_time in ticks
    phoneReply,            \* per connection: what became of its last frame message
    \* MLService
    ml_available,          \* MLService.ml_available
    consecutive_failures,  \* MLService.consecutive_failures
    probeDue,              \* now - last_health_check > health_check_interval
    \* history
    submitted,             \* last frame the scheduler stored in the slot
    busySub,               \* last frame stored while the worker was in a call
    lastInferred,          \* last frame passed to run_inference
    stopRequested,         \* the manager raised shutdown for this scheduler
    brokeOnShutdown,       \* the loop left through the shutdown check
    retired,               \* a switch_source that replaced this attach returned
    lastRaw,               \* per scheduler: frame of its last raw emission
    lastEnh,               \* per scheduler: its last enhanced emission
    timeoutRun,            \* run_inference calls that timed out in a row, up to 2
    nAnnounce,             \* "safe_mode" system messages handed to result_callback
    \* viewers and fan-out (ws_server.py, viewer_manager.py, video_stream_manager.py)
    connSt,                \* per client: its /ws/stream socket "none" | "open" | "closed"
    connId,                \* per client: the viewer_id it registered with, 0 = none
    acKeys,                \* ws_server.active_connections: its keys in insertion order
    acConn,                \* ws_server.active_connections: viewer_id -> socket, 0 = absent
    viewers,               \* ViewerManager._viewers: the registered viewer_ids
    allowed,               \* ViewerManager._allowed_viewers
    rawSt,                 \* per client: its raw socket "none" | "open" | "closed"
    rawList,               \* VideoStreamManager.active_connections
    nMsg,                  \* broadcast calls made so far
    bChan,                 \* per message: the channel it is broadcast on
    bPc,                   \* per message: position of its coroutine
    bSnap,                 \* per message: the copied list the coroutine iterates over
    bIdx,                  \* per message: index in bSnap of the send being awaited
    pend,                  \* per socket: the sends awaited on it, oldest first
    \* history
    lastRecv,              \* per client: last enhanced message its socket received
    sendEnded,             \* an awaited send has ended, with whatever outcome
    revoked,               \* the viewer_ids the operator revoked while they
                           \* were registered, with no allow_viewer since
    \* the pacing of FrameScheduler.run against the clock
    pacePc,                \* position of run(): "none" | "read" | "body" | "sleep"
    sinceLast,             \* time.time() - last_frame_time in ticks
    sinceTick,             \* time.time() - current_time of the latest loop body
    elapsed,               \* current_time - last_frame_time of the latest loop body
    sleepLeft              \* ticks left of time.sleep(sleep_duration)

mgrVars == <<state, current_source_type, current_source, scheduler, shutdown_event,
             timeout_active, frame_age, mgrPc, mgrReq, mgrPath, response,
                   nSched>>
schedVars == <<schedPc, curFrame, nextFrame, ml_ready, latest_frame, ml_stop,
               last_ml_result, in_safe_mode, workerPc, workerFrame, srcStopped,
               srcKind>>
wdVars == <<wdPc, wdSleep>>
clockVars == <<joinLeft>>
phoneVars == <<active_phone, phoneSt, phoneSlot>>
upVars == <<sinceFrame, phoneReply>>
mlVars == <<ml_available, consecutive_failures, probeDue, timeoutRun, nAnnounce>>
histVars == <<submitted, busySub, lastInferred, stopRequested, brokeOnShutdown,
              retired, lastRaw, lastEnh>>
viewVars == <<connSt, connId, acKeys, acConn, viewers, allowed, rawSt, rawList, nMsg,
              bChan, bPc, bSnap, bIdx, pend, lastRecv, sendEnded, revoked>>
paceVars == <<pacePc, sinceLast, sinceTick, elapsed, sleepLeft>>
coreVars == <<mgrVars, schedVars, wdVars, clockVars, phoneVars, histVars, upVars,
              mlVars, paceVars>>
vars == <<mgrVars, schedVars, wdVars, clockVars, phoneVars, histVars, viewVars,
          upVars, mlVars, paceVars>>

NoResponse == [success |-> FALSE, state |-> "none", source |-> "none"]
NoEmission == [frame |-> NoFrame, res |-> NoResult, cached |-> FALSE,
               ml_available |-> FALSE]

\* SourceManager.__init__ and the fields every FrameScheduler starts with
Init ==
    /\ state = "IDLE"
    /\ current_source_type = "none"
    /\ current_source = 0
    /\ scheduler = 0
    /\ shutdown_event = FALSE
    /\ timeout_active = FALSE
    /\ frame_age = NoTs
    /\ mgrPc = "idle"
    /\ mgrReq = "none"
    /\ mgrPath = "none"
    /\ response = NoResponse
    /\ nSched = 0
    /\ schedPc = [s \in Scheds |-> "none"]
    /\ curFrame = [s \in Scheds |-> NoFrame]
    /\ nextFrame = [s \in Scheds |-> 0]
    /\ ml_ready = [s \in Scheds |-> TRUE]
    /\ latest_frame = [s \in Scheds |-> NoFrame]
    /\ ml_stop = [s \in Scheds |-> FALSE]
    /\ last_ml_result = [s \in Scheds |-> NoResult]
    /\ in_safe_mode = [s \in Scheds |-> FALSE]
    /\ workerPc = [s \in Scheds |-> "none"]
    /\ workerFrame = [s \in Scheds |-> NoFrame]
    /\ srcStopped = [s \in Scheds |-> FALSE]
    /\ srcKind = [s \in Scheds |-> "none"]
    /\ wdPc = [s \in Scheds |-> "none"]
    /\ wdSleep = [s \in Scheds |-> 0]
    /\ joinLeft = 0
    /\ active_phone = 0
    /\ phoneSt = [p \in Phones |-> "none"]
    /\ phoneSlot = FALSE
    /\ sinceFrame = [p \in Phones |-> NoTs]
    /\ phoneReply = [p \in Phones |-> "none"]
    /\ ml_available = FALSE
    /\ consecutive_failures = 0
    /\ probeDue = TRUE
    /\ timeoutRun = 0
    /\ nAnnounce = 0
    /\ submitted = [s \in Scheds |-> NoFrame]
    /\ busySub = [s \in Scheds |-> NoFrame]
    /\ lastInferred = [s \in Scheds |-> NoFrame]
    /\ stopRequested = [s \in Scheds |-> FALSE]
    /\ brokeOnShutdown = [s \in Scheds |-> FALSE]
    /\ retired = [s \in Scheds |-> FALSE]
    /\ lastRaw = [s \in Scheds |-> NoFrame]
    /\ lastEnh = [s \in Scheds |-> NoEmission]
    /\ connSt = [c \in Conns |-> "none"]
    /\ connId = [c \in Conns |-> 0]
    /\ acKeys = <<>>
    /\ acConn = [v \in ViewerIds |-> 0]
    /\ viewers = {}
    /\ allowed = {}
    /\ rawSt = [c \in Conns |-> "none"]
    /\ rawList = <<>>
    /\ nMsg = 0
    /\ bChan = [m \in Msgs |-> "none"]
    /\ bPc = [m \in Msgs |-> "none"]
    /\ bSnap = [m \in Msgs |-> <<>>]
    /\ bIdx = [m \in Msgs |-> 0]
    /\ pend = [k \in Channels \X Conns |-> <<>>]
    /\ lastRecv = [c \in Conns |-> 0]
    /\ sendEnded = FALSE
    /\ revoked = {}
    /\ pacePc = "none"
    /\ sinceLast = 0
    /\ sinceTick = NoTs
    /\ elapsed = 0
    /\ sleepLeft = 0

RECURSIVE SumTo(_, _)
SumTo(f, n) == IF n = 0 THEN 0 ELSE f[n] + SumTo(f, n - 1)
FramesYielded == SumTo(nextFrame, MaxSched)

\* threading.Thread.is_alive() of a scheduler thread
IsAlive(s) == s # 0 /\ schedPc[s] \notin {"none", "done"}

\* ------------------------------------------------------------------
\* Frame sources (app/video/video_reader.py, app/video/phone_source.py)
\* ------------------------------------------------------------------

\* read() has a frame to yield: a file source always (within the bound), the
\* phone source when its slot holds an injected frame
SourceHasFrame(s) ==
    /\ FramesYielded < MaxFrames
    /\ srcKind[s] = "camera" => phoneSlot

\* read() ends its sequence once the source was stopped
SourceClosed(s) == srcStopped[s]

\* ------------------------------------------------------------------
\* FrameScheduler.run
\* ------------------------------------------------------------------

\* run(): start the background worker (ml_module is configured)
SchedStart(s) ==
    /\ schedPc[s] = "start"
    /\ schedPc' = [schedPc EXCEPT ![s] = "read"]
    /\ workerPc' = [workerPc EXCEPT ![s] = "wait"]
    /\ UNCHANGED <<curFrame, nextFrame, ml_ready, latest_frame, ml_stop, last_ml_result,
                   in_safe_mode, workerFrame, srcStopped, srcKind>>
    /\ UNCHANGED <<mgrVars, wdVars, clockVars, phoneVars, histVars>>
    /\ UNCHANGED <<paceVars, viewVars, upVars, mlVars>>

\* for ... in self.video_source.read(): the next frame, or the end of the loop
SchedRead(s) ==
    /\ schedPc[s] = "read"
    /\ IF SourceClosed(s)
       THEN /\ schedPc' = [schedPc EXCEPT ![s] = "cleanup"]
            /\ UNCHANGED <<curFrame, nextFrame, phoneSlot>>
       ELSE /\ SourceHasFrame(s)
            /\ nextFrame' = [nextFrame EXCEPT ![s] = @ + 1]
            /\ curFrame' = [curFrame EXCEPT ![s] = nextFrame[s] + 1]
            /\ phoneSlot' = IF srcKind[s] = "camera" THEN FALSE ELSE phoneSlot
            /\ schedPc' = [schedPc EXCEPT ![s] = "tick"]
    /\ UNCHANGED <<ml_ready, latest_frame, ml_stop, last_ml_result, in_safe_mode,
                   workerPc, workerFrame, srcStopped, srcKind>>
    /\ UNCHANGED <<mgrVars, wdVars, clockVars, active_phone, phoneSt, histVars>>
    /\ UNCHANGED <<paceVars, viewVars, upVars, mlVars>>

\* the value the scheduler leaves in the latest_frame slot for frame f
SlotKeepOldest(s, f) == IF latest_frame[s] = NoFrame THEN f ELSE latest_frame[s]
SlotAfterSubmit(s, f) == f

\* the payload of the paced enhanced emission, when last_ml_result exists
EnhancedEmission(s, f, ready) ==
    IF last_ml_result[s] # NoResult
    THEN [frame |-> f, res |-> last_ml_result[s], cached |-> ~ready,
          ml_available |-> TRUE]
    ELSE lastEnh[s]

\* the loop body waits for the call in flight: ml_ready.is_set() returns at
\* once, and the worker holds latest_frame_lock only while it takes the frame
SubmitWaitsForWorker(s) == workerPc[s] = "call"
SubmitWaits(s) == FALSE

\* one loop body up to the admission decision: shutdown check, raw emission,
\* store of the frame in the slot; with ML busy also the enhanced emission
SchedTick(s) ==
    /\ schedPc[s] = "tick"
    /\ ~SubmitWaits(s)
    /\ IF shutdown_event
       THEN /\ schedPc' = [schedPc EXCEPT ![s] = "cleanup"]
            /\ curFrame' = [curFrame EXCEPT ![s] = NoFrame]
            /\ brokeOnShutdown' = [brokeOnShutdown EXCEPT ![s] = TRUE]
            /\ UNCHANGED <<latest_frame, submitted, busySub, lastRaw, lastEnh>>
       ELSE /\ lastRaw' = [lastRaw EXCEPT ![s] = curFrame[s]]
            /\ latest_frame' = [latest_frame EXCEPT ![s] = SlotAfterSubmit(s, curFrame[s])]
            /\ submitted' = [submitted EXCEPT ![s] = curFrame[s]]
            /\ busySub' = [busySub EXCEPT ![s] =
                             IF workerPc[s] = "call" THEN curFrame[s] ELSE @]
            /\ IF ml_ready[s]
               THEN /\ schedPc' = [schedPc EXCEPT ![s] = "clear"]
                    /\ UNCHANGED <<curFrame, lastEnh>>
               ELSE /\ lastEnh' = [lastEnh EXCEPT ![s] =
                                      EnhancedEmission(s, curFrame[s], FALSE)]
                    /\ curFrame' = [curFrame EXCEPT ![s] = NoFrame]
                    /\ schedPc' = [schedPc EXCEPT ![s] = "read"]
            /\ UNCHANGED brokeOnShutdown
    /\ UNCHANGED <<nextFrame, ml_ready, ml_stop, last_ml_result, in_safe_mode, workerPc,
                   workerFrame, srcStopped, srcKind>>
    /\ UNCHANGED <<mgrVars, wdVars, clockVars, phoneVars, lastInferred, stopRequested,
                   retired>>
    /\ UNCHANGED <<paceVars, viewVars, upVars, mlVars>>

\* the submit branch after the store: ml_ready.clear(), then the enhanced emission
SchedClear(s) ==
    /\ schedPc[s] = "clear"
    /\ ml_ready' = [ml_ready EXCEPT ![s] = FALSE]
    /\ lastEnh' = [lastEnh EXCEPT ![s] = EnhancedEmission(s, curFrame[s], FALSE)]
    /\ curFrame' = [curFrame EXCEPT ![s] = NoFrame]
    /\ schedPc' = [schedPc EXCEPT ![s] = "read"]
    /\ UNCHANGED <<nextFrame, latest_frame, ml_stop, last_ml_result, in_safe_mode,
                   workerPc, workerFrame, srcStopped, srcKind>>
    /\ UNCHANGED <<mgrVars, wdVars, clockVars, phoneVars, submitted, busySub,
                   lastInferred, stopRequested, brokeOnShutdown, retired, lastRaw>>
    /\ UNCHANGED <<paceVars, viewVars, upVars, mlVars>>

\* after the loop: ml_stop.set(), shutdown_event.set()
SchedCleanup(s) ==
    /\ schedPc[s] = "cleanup"
    /\ ml_stop' = [ml_stop EXCEPT ![s] = TRUE]
    /\ shutdown_event' = TRUE
    /\ schedPc' = [schedPc EXCEPT ![s] = "join"]
    /\ UNCHANGED <<curFrame, nextFrame, ml_ready, latest_frame, last_ml_result,
                   in_safe_mode, workerPc, workerFrame, srcStopped, srcKind>>
    /\ UNCHANGED <<state, current_source_type, current_source, scheduler, timeout_active,
                   frame_age, mgrPc, mgrReq, mgrPath, response,
                   nSched>>
    /\ UNCHANGED <<wdVars, clockVars, phoneVars, histVars>>
    /\ UNCHANGED <<paceVars, viewVars, upVars, mlVars>>

\* ml_worker_thread.join(timeout=2.0): the worker ended, or the timeout passed
SchedJoin(s) ==
    /\ schedPc[s] = "join"
    /\ schedPc' = [schedPc EXCEPT ![s] = "done"]
    /\ UNCHANGED <<curFrame, nextFrame, ml_ready, latest_frame, ml_stop, last_ml_result,
                   in_safe_mode, workerPc, workerFrame, srcStopped, srcKind>>
    /\ UNCHANGED <<mgrVars, wdVars, clockVars, phoneVars, histVars>>
    /\ UNCHANGED <<paceVars, viewVars, upVars, mlVars>>

\* ------------------------------------------------------------------
\* FrameScheduler.run: STEP 3, the pace-driven sleep, against the clock
\* ------------------------------------------------------------------

\* sleep_duration: frame_interval minus elapsed_since_last, the time from
\* last_frame_time (taken after the previous sleep) to this body's current_time
SleepDuration(elapsed_since_last) == frame_interval - elapsed_since_last

\* run() reaches the loop: last_frame_time = time.time()
PaceRun ==
    /\ pacePc = "none"
    /\ pacePc' = "read"
    /\ sinceLast' = 0
    /\ UNCHANGED <<sinceTick, elapsed, sleepLeft>>
    /\ UNCHANGED <<mgrVars, schedVars, wdVars, clockVars, phoneVars, histVars>>
    /\ UNCHANGED <<viewVars, upVars, mlVars>>

\* read() yields a frame and the loop body begins: current_time = time.time()
PaceTick ==
    /\ pacePc = "read"
    /\ pacePc' = "body"
    /\ elapsed' = sinceLast
    /\ sinceTick' = 0
    /\ UNCHANGED <<sinceLast, sleepLeft>>
    /\ UNCHANGED <<mgrVars, schedVars, wdVars, clockVars, phoneVars, histVars>>
    /\ UNCHANGED <<viewVars, upVars, mlVars>>

\* the body has emitted and submitted: sleep for sleep_duration when it is
\* positive, otherwise last_frame_time = time.time() at once
PaceSleep ==
    /\ pacePc = "body"
    /\ IF SleepDuration(elapsed) > 0
       THEN /\ sleepLeft' = SleepDuration(elapsed)
            /\ pacePc' = "sleep"
            /\ UNCHANGED sinceLast
       ELSE /\ sleepLeft' = 0
            /\ pacePc' = "read"
            /\ sinceLast' = 0
    /\ UNCHANGED <<sinceTick, elapsed>>
    /\ UNCHANGED <<mgrVars, schedVars, wdVars, clockVars, phoneVars, histVars>>
    /\ UNCHANGED <<viewVars, upVars, mlVars>>

\* time.sleep returns: last_frame_time = time.time()
PaceWake ==
    /\ pacePc = "sleep"
    /\ sleepLeft = 0
    /\ pacePc' = "read"
    /\ sinceLast' = 0
    /\ UNCHANGED <<sinceTick, elapsed, sleepLeft>>
    /\ UNCHANGED <<mgrVars, schedVars, wdVars, clockVars, phoneVars, histVars>>
    /\ UNCHANGED <<viewVars, upVars, mlVars>>

\* one tick of time passes, while run() waits in read(), works in the loop
\* body, or sleeps; a sleep ends when its time is over
PaceClock ==
    /\ pacePc # "none"
    /\ pacePc = "sleep" => sleepLeft > 0
    /\ sinceLast' = IF sinceLast < MaxLate THEN sinceLast + 1 ELSE sinceLast
    /\ sinceTick' = IF sinceTick = NoTs \/ sinceTick = MaxLate THEN sinceTick
                     ELSE sinceTick + 1
    /\ sleepLeft' = IF sleepLeft > 0 THEN sleepLeft - 1 ELSE 0
    /\ sinceLast' # sinceLast \/ sinceTick' # sinceTick \/ sleepLeft' # sleepLeft
    /\ UNCHANGED <<pacePc, elapsed>>
    /\ UNCHANGED <<mgrVars, schedVars, wdVars, clockVars, phoneVars, histVars>>
    /\ UNCHANGED <<viewVars, upVars, mlVars>>

NextPace ==
    \/ PaceRun
    \/ PaceTick
    \/ PaceSleep
    \/ PaceWake
    \/ PaceClock

SpecPace == Init /\ [][NextPace]_vars

\* ------------------------------------------------------------------
\* FrameScheduler._ml_worker
\* ------------------------------------------------------------------

\* ml_ready.wait(timeout=1.0) returned (set, or timed out), stop is not set and
\* the slot holds a frame: take it and start run_inference on it
WorkerTake(s) ==
    /\ workerPc[s] = "wait"
    /\ ~ml_stop[s]
    /\ latest_frame[s] # NoFrame
    /\ workerFrame' = [workerFrame EXCEPT ![s] = latest_frame[s]]
    /\ latest_frame' = [latest_frame EXCEPT ![s] = NoFrame]
    /\ workerPc' = [workerPc EXCEPT ![s] = "call"]
    /\ lastInferred' = [lastInferred EXCEPT ![s] = latest_frame[s]]
    /\ busySub' = [busySub EXCEPT ![s] = NoFrame]
    /\ UNCHANGED <<schedPc, curFrame, nextFrame, ml_ready, ml_stop, last_ml_result,
                   in_safe_mode, srcStopped, srcKind>>
    /\ UNCHANGED <<mgrVars, wdVars, clockVars, phoneVars, submitted, stopRequested,
                   brokeOnShutdown, retired, lastRaw, lastEnh>>
    /\ UNCHANGED <<paceVars, viewVars, upVars, mlVars>>

\* the loop sees ml_stop set and ends
WorkerExit(s) ==
    /\ workerPc[s] = "wait"
    /\ ml_stop[s]
    /\ workerPc' = [workerPc EXCEPT ![s] = "done"]
    /\ UNCHANGED <<schedPc, curFrame, nextFrame, ml_ready, latest_frame, ml_stop,
                   last_ml_result, in_safe_mode, workerFrame, srcStopped, srcKind>>
    /\ UNCHANGED <<mgrVars, wdVars, clockVars, phoneVars, histVars>>
    /\ UNCHANGED <<paceVars, viewVars, upVars, mlVars>>

\* RECOVERY CHECK and ENTER SAFE MODE: in_safe_mode after a call that raised,
\* or returned in less than 0.5 s (quick) or later
StaysInSafeMode(flag, raised, quick) == raised \/ flag
SafeModeAfterCall(flag, raised, quick) == raised \/ (flag /\ ~quick)

\* the worker after run_inference: the result stored in last_ml_result, or the
\* except clause with its "safe_mode" system message; finally: ml_ready.set()
WorkerHandle(s, raised, quick, res) ==
    /\ workerPc[s] = "call"
    /\ IF raised
       THEN /\ nAnnounce' = IF in_safe_mode[s] THEN nAnnounce ELSE nAnnounce + 1
            /\ UNCHANGED last_ml_result
       ELSE /\ last_ml_result' = [last_ml_result EXCEPT ![s] =
                                    [src |-> s, frame |-> workerFrame[s],
                                     state |-> res.state,
                                     ml_available |-> res.ml_available,
                                     detections |-> res.detections]]
            /\ UNCHANGED nAnnounce
    /\ in_safe_mode' = [in_safe_mode EXCEPT ![s] = SafeModeAfterCall(@, raised, quick)]
    /\ ml_ready' = [ml_ready EXCEPT ![s] = TRUE]
    /\ workerFrame' = [workerFrame EXCEPT ![s] = NoFrame]
    /\ workerPc' = [workerPc EXCEPT ![s] = "wait"]
    /\ UNCHANGED <<schedPc, curFrame, nextFrame, latest_frame, ml_stop, srcStopped, srcKind>>
    /\ UNCHANGED <<mgrVars, wdVars, clockVars, phoneVars, histVars>>
    /\ UNCHANGED <<paceVars, viewVars, upVars>>

\* what an inference module returns that is no SAFE_MODE placeholder: the
\* detections and max_confidence the engine reported; the emission reads its
\* "state" with the default "NORMAL"
NormalResult == [state |-> "NORMAL", ml_available |-> TRUE, detections |-> "engine"]

\* run_inference of a module that keeps no client state (DummyML) returned, in
\* less than 0.5 s ("fast") or later ("slow"), or raised
WorkerReturn(s, o) ==
    /\ WorkerHandle(s, o = "raise", o = "fast", NormalResult)
    /\ UNCHANGED <<ml_available, consecutive_failures, probeDue, timeoutRun>>

\* the call raised with in_safe_mode False, and the result_callback that the
\* except clause calls with the "safe_mode" message raised as well: the
\* exception leaves the except clause, the finally block sets ml_ready, and the
\* exception ends the while loop and the thread
WorkerCallbackRaises(s) ==
    /\ workerPc[s] = "call"
    /\ ~in_safe_mode[s]
    /\ in_safe_mode' = [in_safe_mode EXCEPT ![s] = TRUE]
    /\ ml_ready' = [ml_ready EXCEPT ![s] = TRUE]
    /\ workerFrame' = [workerFrame EXCEPT ![s] = NoFrame]
    /\ workerPc' = [workerPc EXCEPT ![s] = "crashed"]
    /\ UNCHANGED <<schedPc, curFrame, nextFrame, latest_frame, ml_stop, last_ml_result,
                   srcStopped, srcKind>>
    /\ UNCHANGED <<mgrVars, wdVars, clockVars, phoneVars, histVars>>
    /\ UNCHANGED <<paceVars, viewVars, upVars, mlVars>>

\* what can become of one pass of the worker's try block: the module's three
\* outcomes, a result that cannot be copied (result.copy() raises inside the
\* try, so the except clause handles it like a raise of the call), and a raise
\* of the call whose report through result_callback raises too
WorkerOutcomes == Outcomes \cup {"copy_raises", "callback_raises"}

WorkerCompletes(s, o) ==
    CASE o = "callback_raises" -> WorkerCallbackRaises(s)
      [] o = "copy_raises" ->
            /\ WorkerHandle(s, TRUE, FALSE, NormalResult)
            /\ UNCHANGED <<ml_available, consecutive_failures, probeDue, timeoutRun>>
      [] OTHER -> WorkerReturn(s, o)

\* ------------------------------------------------------------------
\* MLService (app/services/ml_service.py)
\* ------------------------------------------------------------------

\* _safe_mode_response: 'detections': [], 'max_confidence': 0.0
SafeModeResponse == [state |-> "SAFE_MODE", ml_available |-> FALSE,
                     detections |-> "empty"]

\* the response with status != 'success': no detections, state SAFE_MODE, and
\* ml_available True
NotSuccessResponse == [state |-> "SAFE_MODE", ml_available |-> TRUE,
                       detections |-> "empty"]

\* the except clause of run_inference that handles the end of the POST, in the
\* order the clauses are written: requests' ConnectTimeout is a Timeout and a
\* ConnectionError and is caught as a Timeout; a status other than 200 raises
\* RuntimeError inside the try
ExceptClauseNoCatchAll(r) ==
    CASE r \in {"success", "not_success"} -> "none"
      [] r \in {"timeout", "connect_timeout"} -> "Timeout"
      [] r = "connection_error" -> "ConnectionError"
      [] OTHER -> "uncaught"
ExceptClause(r) ==
    CASE r \in {"success", "not_success"} -> "none"
      [] r \in {"timeout", "connect_timeout"} -> "Timeout"
      [] r = "connection_error" -> "ConnectionError"
      [] OTHER -> "Exception"

\* consecutive_failures after the POST
FailuresAfterPost(cf, r) ==
    CASE ExceptClause(r) = "none" -> 0
      [] ExceptClause(r) = "ConnectionError" -> cf
      [] OTHER -> cf + 1

\* ml_available after the POST
AvailableOnlyAfterProbe(avail, cf, r) ==
    CASE ExceptClause(r) = "none" -> avail
      [] ExceptClause(r) = "ConnectionError" -> FALSE
      [] OTHER -> IF cf + 1 >= MAX_FAILURES_BEFORE_SAFE_MODE THEN FALSE ELSE avail
AvailableOnFirstFailure(avail, cf, r) ==
    CASE ExceptClause(r) = "none" -> TRUE
      [] OTHER -> FALSE
AvailableAfterPost(avail, cf, r) ==
    CASE ExceptClause(r) = "none" -> TRUE
      [] ExceptClause(r) = "ConnectionError" -> FALSE
      [] OTHER -> IF cf + 1 >= MAX_FAILURES_BEFORE_SAFE_MODE THEN FALSE ELSE avail

\* run_inference from "self.frame_count += 1" on: the POST ended as r
AfterPost(avail, cf, due, r) ==
    [avail |-> AvailableAfterPost(avail, cf, r),
     cf |-> FailuresAfterPost(cf, r),
     \* self.last_health_check = time.time() where ml_available is set False
     due |-> IF \/ ExceptClause(r) = "ConnectionError"
                \/ /\ ExceptClause(r) \in {"Timeout", "Exception"}
                   /\ cf + 1 >= MAX_FAILURES_BEFORE_SAFE_MODE
             THEN FALSE ELSE due,
     res |-> CASE r = "success" -> NormalResult
               [] r = "not_success" -> NotSuccessResponse
               [] OTHER -> SafeModeResponse,
     raised |-> ExceptClause(r) = "uncaught",
     posted |-> TRUE]

\* run_inference(frame): the health probe when the engine was unavailable and
\* the interval has passed (it ends as h), then the POST (it ends as r)
RunInference(avail, cf, due, h, r) ==
    IF ~avail /\ due
    THEN IF h = "ok"
         THEN AfterPost(TRUE, 0, FALSE, r)
         ELSE [avail |-> avail, cf |-> cf, due |-> FALSE, res |-> SafeModeResponse,
               raised |-> FALSE, posted |-> FALSE]
    ELSE AfterPost(avail, cf, due, r)

HealthOutcomes == {"ok", "fail"}
PostOutcomes == {"success", "not_success", "timeout", "connect_timeout",
                 "connection_error", "error"}

\* the calls in a row that ended in the Timeout clause, counted up to the threshold
TimeoutRunAfter(n, out, r) ==
    IF out.posted /\ ExceptClause(r) = "Timeout"
    THEN IF n < MAX_FAILURES_BEFORE_SAFE_MODE THEN n + 1 ELSE n
    ELSE 0

\* the worker of a scheduler whose ml_module is the MLService: one
\* run_inference call, and the worker's handling of what it returns; a call
\* that ran into the request timeout did not return in less than 0.5 s
WorkerInfer(s, h, r, quick) ==
    LET out == RunInference(ml_available, consecutive_failures, probeDue, h, r) IN
    /\ (out.posted /\ ExceptClause(r) = "Timeout") => ~quick
    /\ WorkerHandle(s, out.raised, quick, out.res)
    /\ ml_available' = out.avail
    /\ consecutive_failures' = out.cf
    /\ probeDue' = out.due
    /\ timeoutRun' = TimeoutRunAfter(timeoutRun, out, r)

\* health_check_interval (5 s) passes after the last health check
HealthIntervalPasses ==
    /\ ~probeDue
    /\ probeDue' = TRUE
    /\ UNCHANGED <<ml_available, consecutive_failures, timeoutRun, nAnnounce>>
    /\ UNCHANGED <<mgrVars, schedVars, wdVars, clockVars, phoneVars, histVars>>
    /\ UNCHANGED <<paceVars, viewVars, upVars>>

\* ------------------------------------------------------------------
\* SourceManager
\* ------------------------------------------------------------------

\* the dict switch_source returns
SwitchResponse(t, ok) ==
    IF ok
    THEN [success |-> TRUE,
          state |-> IF t = "video" THEN "VIDEO_ACTIVE" ELSE "CAMERA_WAITING",
          source |-> t]
    ELSE [success |-> FALSE, state |-> "ERROR", source |-> "none"]

\* _detach_current_source: the source stopped by the detach
StoppedByNobody == srcStopped
StoppedByDetach == [srcStopped EXCEPT ![current_source] = TRUE]

\* last_ml_result of a FrameScheduler object just constructed
InheritedResult(a) == IF scheduler # 0 THEN last_ml_result[scheduler] ELSE NoResult
InitialResult(a) == NoResult

\* _start_scheduler, from the construction of the FrameScheduler on, and the rest
\* of _attach_video_source / _attach_camera_source after it
CreateAndFinish(a) ==
    /\ nSched' = a
    /\ scheduler' = a
    /\ schedPc' = [schedPc EXCEPT ![a] = "start"]
    /\ last_ml_result' = [last_ml_result EXCEPT ![a] = InitialResult(a)]
    /\ retired' = [s \in Scheds |-> s < a /\ schedPc[s] # "none"]
    /\ IF mgrReq = "video"
       THEN /\ state' = "VIDEO_ACTIVE"
            /\ UNCHANGED <<timeout_active, wdPc, wdSleep>>
       ELSE /\ timeout_active' = TRUE
            /\ wdPc' = [wdPc EXCEPT ![a] = "sleep"]
            /\ wdSleep' = [wdSleep EXCEPT ![a] = POLL_SECONDS]
            /\ UNCHANGED state
    /\ mgrPc' = "idle"
    /\ mgrReq' = "none"
    /\ mgrPath' = "none"
    /\ response' = SwitchResponse(mgrReq, TRUE)
    /\ UNCHANGED <<current_source_type, current_source, frame_age>>
    /\ UNCHANGED <<curFrame, nextFrame, ml_ready, latest_frame, ml_stop, in_safe_mode,
                   workerPc, workerFrame, srcStopped, srcKind>>
    /\ UNCHANGED <<phoneVars, submitted, busySub, lastInferred, stopRequested,
                   brokeOnShutdown, lastRaw, lastEnh>>
    /\ UNCHANGED <<paceVars, viewVars, upVars, mlVars>>

\* _attach_video_source: the file to open exists; the requested path is tried
\* first, then the alternatives "dummy.mp4" and "backend/dummy.mp4"
VideoFound(requested, fallback) == requested \/ fallback

\* switch_source(source_type, video_path) up to the call of _start_scheduler:
\* detach, then either the failed open of the video (no file found) or the new
\* source bound; requested: the requested path exists, fallback: one of the
\* alternative paths does
SwitchSource(t, requested, fallback) ==
    /\ mgrPc = "idle"
    /\ nSched < MaxSched
    /\ timeout_active' = FALSE
    /\ srcStopped' = IF current_source # 0 THEN StoppedByDetach ELSE srcStopped
    /\ IF t = "video" /\ ~VideoFound(requested, fallback)
       THEN /\ state' = "ERROR"
            /\ mgrPath' = "none"
            /\ response' = SwitchResponse(t, FALSE)
            /\ current_source' = 0
            /\ current_source_type' = "none"
            /\ frame_age' = NoTs
            /\ retired' = [s \in Scheds |-> schedPc[s] # "none"]
            /\ UNCHANGED <<mgrPc, mgrReq, srcKind>>
       ELSE /\ current_source' = nSched + 1
            /\ current_source_type' = t
            /\ srcKind' = [srcKind EXCEPT ![nSched + 1] = t]
            /\ frame_age' = IF t = "camera" THEN 0 ELSE NoTs
            /\ state' = IF t = "camera" THEN "CAMERA_WAITING" ELSE "IDLE"
            /\ mgrPc' = "start"
            /\ mgrReq' = t
            /\ mgrPath' = IF t = "camera" THEN "none"
                           ELSE IF requested THEN "found" ELSE "missing"
            /\ response' = NoResponse
            /\ UNCHANGED retired
    /\ UNCHANGED <<scheduler, shutdown_event, nSched>>
    /\ UNCHANGED <<schedPc, curFrame, nextFrame, ml_ready, latest_frame, ml_stop,
                   last_ml_result, in_safe_mode, workerPc, workerFrame>>
    /\ UNCHANGED <<wdVars, clockVars, phoneVars, submitted, busySub, lastInferred,
                   stopRequested, brokeOnShutdown, lastRaw, lastEnh>>
    /\ UNCHANGED <<paceVars, viewVars, upVars, mlVars>>

\* _start_scheduler: the previous scheduler thread is alive, so raise the shared
\* shutdown event and join it; or it is not, so go on to create the new one
MgrStartScheduler ==
    /\ mgrPc = "start"
    /\ IF IsAlive(scheduler)
       THEN /\ shutdown_event' = TRUE
            /\ stopRequested' = [stopRequested EXCEPT ![scheduler] = TRUE]
            /\ mgrPc' = "join"
            /\ joinLeft' = JOIN_TIMEOUT_SECONDS
            /\ UNCHANGED <<state, current_source_type, current_source, scheduler,
                           timeout_active, frame_age, mgrReq, mgrPath, response,
                   nSched>>
            /\ UNCHANGED <<schedVars, wdVars, phoneVars, submitted, busySub,
                           lastInferred, brokeOnShutdown, retired, lastRaw, lastEnh>>
            /\ UNCHANGED <<paceVars, viewVars, upVars, mlVars>>
       ELSE /\ CreateAndFinish(nSched + 1)
            /\ UNCHANGED <<shutdown_event, joinLeft, stopRequested>>

\* _scheduler_thread.join(timeout=2.0) returns: the thread ended, or the
\* timeout passed
JoinWithoutTimeout(s, timedOut) == ~IsAlive(s)
JoinReturned(s, timedOut) == ~IsAlive(s) \/ timedOut

\* _scheduler_thread.join(timeout=2.0) returned: clear the shutdown event and
\* create the new scheduler
MgrJoin ==
    /\ mgrPc = "join"
    /\ \E timedOut \in BOOLEAN : JoinReturned(scheduler, timedOut)
    /\ shutdown_event' = FALSE
    /\ CreateAndFinish(nSched + 1)
    /\ joinLeft' = 0
    /\ UNCHANGED stopRequested

\* _detach_current_source, as the watchdog and notify_camera_disconnected call it
Detach ==
    /\ timeout_active' = FALSE
    /\ srcStopped' = IF current_source # 0 THEN StoppedByDetach ELSE srcStopped
    /\ current_source' = 0
    /\ current_source_type' = "none"
    /\ frame_age' = NoTs
    /\ state' = "IDLE"

\* notify_camera_disconnected
NotifyCameraDisconnected ==
    /\ Detach
    /\ UNCHANGED <<scheduler, shutdown_event, mgrPc, mgrReq, mgrPath, response,
                   nSched>>
    /\ UNCHANGED <<schedPc, curFrame, nextFrame, ml_ready, latest_frame, ml_stop,
                   last_ml_result, in_safe_mode, workerPc, workerFrame, srcKind>>
    /\ UNCHANGED <<wdVars, clockVars, phoneVars, histVars>>
    /\ UNCHANGED <<paceVars, viewVars, upVars, mlVars>>

\* SourceManager.shutdown: detach, raise the shutdown event, join the
\* scheduler thread for up to 5 s; no call comes after it
MgrShutdown ==
    /\ mgrPc = "idle"
    /\ Detach
    /\ shutdown_event' = TRUE
    /\ mgrPc' = "down"
    /\ UNCHANGED <<scheduler, mgrReq, mgrPath, response, nSched>>
    /\ UNCHANGED <<schedPc, curFrame, nextFrame, ml_ready, latest_frame, ml_stop,
                   last_ml_result, in_safe_mode, workerPc, workerFrame, srcKind>>
    /\ UNCHANGED <<wdVars, clockVars, phoneVars, histVars>>
    /\ UNCHANGED <<paceVars, viewVars, upVars, mlVars>>

\* on_frame_received: the new _frame_age and _state
OnFrameReceivedState == IF state = "CAMERA_WAITING" THEN "CAMERA_ACTIVE" ELSE state
OnFrameReceived ==
    /\ frame_age' = 0
    /\ state' = OnFrameReceivedState

\* ------------------------------------------------------------------
\* the camera timeout watchdog, _monitor_camera_timeout_frame_driven
\* ------------------------------------------------------------------

\* time_since_frame > self._camera_timeout_seconds
TimedOutWallClock30(age) == age > 2 * CAMERA_TIMEOUT_SECONDS
TimedOut(age) == age > CAMERA_TIMEOUT_SECONDS

\* the end of one pass of the loop: while self._timeout_active, sleep again
WdLoop(a) ==
    IF timeout_active
    THEN /\ wdSleep' = [wdSleep EXCEPT ![a] = POLL_SECONDS]
         /\ UNCHANGED wdPc
    ELSE /\ wdPc' = [wdPc EXCEPT ![a] = "done"]
         /\ UNCHANGED wdSleep

\* the watchdog wakes from time.sleep(2.0), reads the state and the timestamp
\* and decides: keep polling, return, or go on to detach
WdPoll(a) ==
    /\ wdPc[a] = "sleep"
    /\ wdSleep[a] = 0
    /\ IF state = "CAMERA_ACTIVE"
       THEN WdLoop(a)
       ELSE IF state # "CAMERA_WAITING"
       THEN /\ wdPc' = [wdPc EXCEPT ![a] = "done"]
            /\ UNCHANGED wdSleep
       ELSE IF frame_age # NoTs /\ TimedOut(frame_age)
       THEN /\ wdPc' = [wdPc EXCEPT ![a] = "decided"]
            /\ UNCHANGED wdSleep
       ELSE WdLoop(a)
    /\ UNCHANGED <<mgrVars, schedVars, clockVars, phoneVars, histVars>>
    /\ UNCHANGED <<paceVars, viewVars, upVars, mlVars>>

\* the watchdog, having found the camera stalled: _timeout_active = False and
\* _detach_current_source()
WdFire(a) ==
    /\ wdPc[a] = "decided"
    /\ Detach
    /\ wdPc' = [wdPc EXCEPT ![a] = "fired"]
    /\ UNCHANGED <<scheduler, shutdown_event, mgrPc, mgrReq, mgrPath, response,
                   nSched>>
    /\ UNCHANGED <<schedPc, curFrame, nextFrame, ml_ready, latest_frame, ml_stop,
                   last_ml_result, in_safe_mode, workerPc, workerFrame, srcKind>>
    /\ UNCHANGED <<wdSleep, clockVars, phoneVars, histVars>>
    /\ UNCHANGED <<paceVars, viewVars, upVars, mlVars>>

\* one second passes; a sleeping watchdog wakes when its sleep is over, a
\* join(timeout=2.0) returns by its deadline, and the steps in between take no time
Tick ==
    /\ \A a \in Scheds : wdPc[a] = "sleep" => wdSleep[a] > 0
    /\ \A a \in Scheds : wdPc[a] # "decided"
    /\ mgrPc = "join" => joinLeft > 0
    /\ mgrPc # "start"
    /\ frame_age' = IF frame_age = NoTs \/ frame_age = MaxAge THEN frame_age
                     ELSE frame_age + 1
    /\ wdSleep' = [a \in Scheds |-> IF wdSleep[a] > 0 THEN wdSleep[a] - 1 ELSE 0]
    /\ joinLeft' = IF joinLeft > 0 THEN joinLeft - 1 ELSE 0
    /\ UNCHANGED <<state, current_source_type, current_source, scheduler, shutdown_event,
                   timeout_active, mgrPc, mgrReq, mgrPath, response,
                   nSched>>
    /\ UNCHANGED <<schedVars, wdPc, phoneVars, histVars>>
    /\ UNCHANGED <<paceVars, viewVars, upVars, mlVars>>

\* ------------------------------------------------------------------
\* phone_upload_endpoint
\* ------------------------------------------------------------------

\* phone_camera_source.stop(): the shared phone source ends the read() of
\* every camera attach
PhoneSourceStop == [s \in Scheds |-> srcStopped[s] \/ srcKind[s] = "camera"]

\* a phone connects: the bound connection is closed with code 1000, the new
\* one is accepted and bound
PhoneConnect(p) ==
    /\ phoneSt[p] = "none"
    /\ \A q \in Phones : q < p => phoneSt[q] # "none"
    /\ phoneSt' = [q \in Phones |->
                     IF q = p THEN "open"
                     ELSE IF q = active_phone /\ phoneSt[q] = "open" THEN "closed"
                     ELSE phoneSt[q]]
    /\ active_phone' = p
    /\ UNCHANGED <<mgrVars, schedVars, wdVars, clockVars, phoneSlot, histVars>>
    /\ UNCHANGED <<paceVars, viewVars, upVars, mlVars>>

\* phone_camera_source.inject_frame: the frame goes into the source's slot and
\* the source reports it to the manager (on_frame_received)
InjectFrame ==
    /\ phoneSlot' = TRUE
    /\ OnFrameReceived

\* a frame message of an open connection, not throttled and decoded
PhoneFrame(p) ==
    /\ phoneSt[p] = "open"
    /\ InjectFrame
    /\ UNCHANGED <<current_source_type, current_source, scheduler, shutdown_event,
                   timeout_active, mgrPc, mgrReq, mgrPath, response,
                   nSched>>
    /\ UNCHANGED <<schedVars, wdVars, clockVars, active_phone, phoneSt, histVars>>
    /\ UNCHANGED <<paceVars, viewVars, upVars, mlVars>>

\* the connection ends (the phone left, or the endpoint closed it): the
\* handler's finally block
PhoneDisconnect(p) ==
    /\ phoneSt[p] \in {"open", "closed"}
    /\ phoneSt' = [phoneSt EXCEPT ![p] = "gone"]
    /\ active_phone' = IF active_phone = p THEN 0 ELSE active_phone
    /\ srcStopped' = PhoneSourceStop
    /\ sinceFrame' = [sinceFrame EXCEPT ![p] = NoTs]
    /\ UNCHANGED <<mgrVars, wdVars, clockVars, phoneSlot, histVars>>
    /\ UNCHANGED <<schedPc, curFrame, nextFrame, ml_ready, latest_frame, ml_stop,
                   last_ml_result, in_safe_mode, workerPc, workerFrame, srcKind>>
    /\ UNCHANGED <<paceVars, viewVars, phoneReply, mlVars>>

\* ---- the endpoint await by await, with its throttle ----

\* a connection reaches the endpoint: if a phone is bound, its close(code=1000)
\* is sent, and the handler waits for the close and then for accept()
PhoneArrive(p) ==
    /\ phoneSt[p] = "none"
    /\ \A q \in Phones : q < p => phoneSt[q] # "none"
    /\ phoneSt' = [q \in Phones |->
                     IF q = p THEN "accepting"
                     ELSE IF q = active_phone /\ phoneSt[q] = "open" THEN "closed"
                     ELSE phoneSt[q]]
    /\ UNCHANGED <<mgrVars, schedVars, wdVars, clockVars, active_phone, phoneSlot,
                   histVars>>
    /\ UNCHANGED <<paceVars, viewVars, upVars, mlVars>>

\* accept() returned: _active_phone = websocket, last_frame_time = 0.0
PhoneAccepted(p) ==
    /\ phoneSt[p] = "accepting"
    /\ phoneSt' = [phoneSt EXCEPT ![p] = "open"]
    /\ active_phone' = p
    /\ sinceFrame' = [sinceFrame EXCEPT ![p] = NoTs]
    /\ UNCHANGED <<mgrVars, schedVars, wdVars, clockVars, phoneSlot, histVars>>
    /\ UNCHANGED <<paceVars, viewVars, phoneReply, mlVars>>

\* last_frame_time > 0 and (now - last_frame_time) < FRAME_INTERVAL * 0.5
ThrottledInclusive(gap) == gap # NoTs /\ 2 * gap <= FRAME_INTERVAL
Throttled(gap) == gap # NoTs /\ 2 * gap < FRAME_INTERVAL

\* one message with a "frame" key on an open connection: throttled, or decoded
\* (decodes: cv2.imdecode gives an image) and injected; inject_frame accepts
\* the frame when the source's slot is empty
PhoneMessage(p, decodes) ==
    /\ phoneSt[p] = "open"
    /\ IF Throttled(sinceFrame[p])
       THEN /\ phoneReply' = [phoneReply EXCEPT ![p] = "throttle"]
            /\ UNCHANGED <<sinceFrame, phoneSlot, frame_age, state>>
       ELSE /\ sinceFrame' = [sinceFrame EXCEPT ![p] = 0]
            /\ IF decodes
               THEN /\ InjectFrame
                    /\ phoneReply' = [phoneReply EXCEPT ![p] =
                                         IF phoneSlot THEN "slow_down" ELSE "accepted"]
               ELSE /\ phoneReply' = [phoneReply EXCEPT ![p] = "dropped"]
                    /\ UNCHANGED <<phoneSlot, frame_age, state>>
    /\ UNCHANGED <<current_source_type, current_source, scheduler, shutdown_event,
                   timeout_active, mgrPc, mgrReq, mgrPath, response,
                   nSched>>
    /\ UNCHANGED <<schedVars, wdVars, clockVars, active_phone, phoneSt, histVars>>
    /\ UNCHANGED <<paceVars, viewVars, mlVars>>

\* time.time() moves on by one tick
PhoneClock ==
    /\ \E p \in Phones : sinceFrame[p] # NoTs /\ sinceFrame[p] < MaxGap
    /\ sinceFrame' = [p \in Phones |->
                        IF sinceFrame[p] = NoTs \/ sinceFrame[p] = MaxGap
                        THEN sinceFrame[p] ELSE sinceFrame[p] + 1]
    /\ UNCHANGED <<mgrVars, schedVars, wdVars, clockVars, phoneVars, histVars>>
    /\ UNCHANGED <<paceVars, viewVars, phoneReply, mlVars>>

NextPhone ==
    \/ \E p \in Phones : PhoneArrive(p)
    \/ \E p \in Phones : PhoneAccepted(p)
    \/ \E p \in Phones, decodes \in BOOLEAN : PhoneMessage(p, decodes)
    \/ \E p \in Phones : PhoneDisconnect(p)
    \/ PhoneClock

SpecPhone == Init /\ [][NextPhone]_vars

\* the manager, its watchdogs and the phone against the clock; the scheduler
\* threads are left where they start, so every join runs into its timeout
NextCam ==
    \/ \E t \in SourceTypes, requested, fallback \in BOOLEAN :
          SwitchSource(t, requested, fallback)
    \/ MgrStartScheduler
    \/ MgrJoin
    \/ NotifyCameraDisconnected
    \/ \E a \in Scheds : WdPoll(a)
    \/ \E a \in Scheds : WdFire(a)
    \/ \E p \in CamPhones : PhoneConnect(p)
    \/ \E p \in CamPhones : PhoneFrame(p)
    \/ \E p \in CamPhones : PhoneDisconnect(p)
    \/ Tick

SpecCam == Init /\ [][NextCam]_vars

\* the manager and its watchdogs against the clock, with no phone: no frame
\* ever arrives
NextWatch ==
    \/ \E t \in SourceTypes, requested, fallback \in BOOLEAN :
          SwitchSource(t, requested, fallback)
    \/ MgrStartScheduler
    \/ MgrJoin
    \/ NotifyCameraDisconnected
    \/ \E a \in Scheds : WdPoll(a)
    \/ \E a \in Scheds : WdFire(a)
    \/ Tick

SpecWatch == Init /\ [][NextWatch]_vars

\* camera attaches with no phone connected: every scheduler loop waits in
\* read() for a frame until its source is stopped; the manager switches and
\* shuts down
NextShutdown ==
    \/ \E requested, fallback \in BOOLEAN : SwitchSource("camera", requested, fallback)
    \/ MgrStartScheduler
    \/ MgrJoin
    \/ MgrShutdown
    \/ \E s \in Scheds : SchedStart(s)
    \/ \E s \in Scheds : SchedRead(s)
    \/ \E s \in Scheds : SchedCleanup(s)
    \/ \E s \in Scheds : SchedJoin(s)
    \/ \E s \in Scheds : WorkerExit(s)

\* the threads keep running: the manager inside a call, every scheduler loop
\* and every worker; the calls of switch_source and shutdown are up to the
\* caller
SpecShutdownFair ==
    /\ Init /\ [][NextShutdown]_vars
    /\ WF_vars(MgrStartScheduler)
    /\ WF_vars(MgrJoin)
    /\ \A s \in Scheds :
          /\ WF_vars(SchedStart(s))
          /\ WF_vars(SchedRead(s))
          /\ WF_vars(SchedCleanup(s))
          /\ WF_vars(SchedJoin(s))
          /\ WF_vars(WorkerExit(s))

\* camera attaches with their scheduler loops, and phones that connect one
\* after the other, each one closing the connection bound before it
NextEvict ==
    \/ \E requested, fallback \in BOOLEAN : SwitchSource("camera", requested, fallback)
    \/ MgrStartScheduler
    \/ MgrJoin
    \/ \E s \in Scheds : SchedStart(s)
    \/ \E s \in Scheds : SchedRead(s)
    \/ \E s \in Scheds : SchedTick(s)
    \/ \E s \in Scheds : SchedClear(s)
    \/ \E s \in Scheds : SchedCleanup(s)
    \/ \E s \in Scheds : SchedJoin(s)
    \/ \E p \in Phones : PhoneConnect(p)
    \/ \E p \in Phones : PhoneFrame(p)
    \/ \E p \in Phones : PhoneDisconnect(p)

SpecEvict == Init /\ [][NextEvict]_vars


Next ==
    \/ \E t \in SourceTypes, requested, fallback \in BOOLEAN :
          SwitchSource(t, requested, fallback)
    \/ MgrStartScheduler
    \/ MgrJoin
    \/ \E s \in Scheds : SchedStart(s)
    \/ \E s \in Scheds : SchedRead(s)
    \/ \E s \in Scheds : SchedTick(s)
    \/ \E s \in Scheds : SchedClear(s)
    \/ \E s \in Scheds : SchedCleanup(s)
    \/ \E s \in Scheds : SchedJoin(s)
    \/ \E s \in Scheds : WorkerTake(s)
    \/ \E s \in Scheds : WorkerExit(s)
    \/ \E s \in Scheds, o \in MLServiceOutcomes : WorkerReturn(s, o)

Spec == Init /\ [][Next]_vars

\* ------------------------------------------------------------------
\* One scheduler run on its own, outside the manager
\* ------------------------------------------------------------------

\* startup_event of main.py: a FrameScheduler on a file source, run on a thread
\* of its own; no shutdown event is passed
StartupScheduler ==
    /\ nSched = 0
    /\ mgrPc = "idle"
    /\ nSched' = 1
    /\ schedPc' = [schedPc EXCEPT ![1] = "start"]
    /\ srcKind' = [srcKind EXCEPT ![1] = "video"]
    /\ UNCHANGED <<state, current_source_type, current_source, scheduler, shutdown_event,
                   timeout_active, frame_age, mgrPc, mgrReq, mgrPath, response>>
    /\ UNCHANGED <<curFrame, nextFrame, ml_ready, latest_frame, ml_stop, last_ml_result,
                   in_safe_mode, workerPc, workerFrame, srcStopped>>
    /\ UNCHANGED <<wdVars, clockVars, phoneVars, histVars>>
    /\ UNCHANGED <<paceVars, viewVars, upVars, mlVars>>

\* the scheduler with an inference module that may raise (DummyML)
NextSafe ==
    \/ StartupScheduler
    \/ \E s \in Scheds : SchedStart(s)
    \/ \E s \in Scheds : SchedRead(s)
    \/ \E s \in Scheds : SchedTick(s)
    \/ \E s \in Scheds : SchedClear(s)
    \/ \E s \in Scheds : WorkerTake(s)
    \/ \E s \in Scheds, o \in Outcomes : WorkerReturn(s, o)

SpecSafe == Init /\ [][NextSafe]_vars

\* the scheduler with an inference module and a result callback that may raise
NextWorker ==
    \/ StartupScheduler
    \/ \E s \in Scheds : SchedStart(s)
    \/ \E s \in Scheds : SchedRead(s)
    \/ \E s \in Scheds : SchedTick(s)
    \/ \E s \in Scheds : SchedClear(s)
    \/ \E s \in Scheds : WorkerTake(s)
    \/ \E s \in Scheds, o \in WorkerOutcomes : WorkerCompletes(s, o)

SpecWorker == Init /\ [][NextWorker]_vars

\* the same, with a worker thread that keeps running: ml_ready.wait(timeout=1.0)
\* returns after a second at the latest, so a worker that can take a frame does
SpecWorkerFair ==
    /\ SpecWorker
    /\ \A s \in Scheds : WF_vars(WorkerTake(s))

\* the scheduler with the MLService as its inference module
NextInfer ==
    \/ StartupScheduler
    \/ \E s \in Scheds : SchedStart(s)
    \/ \E s \in Scheds : SchedRead(s)
    \/ \E s \in Scheds : SchedTick(s)
    \/ \E s \in Scheds : SchedClear(s)
    \/ \E s \in Scheds : WorkerTake(s)
    \/ \E s \in Scheds, h \in HealthOutcomes, r \in PostOutcomes, quick \in BOOLEAN :
          WorkerInfer(s, h, r, quick)
    \/ HealthIntervalPasses

SpecInfer == Init /\ [][NextInfer]_vars

\* ------------------------------------------------------------------
\* Viewers and fan-out: ws_server.py, viewer_manager.py,
\* video_stream_manager.py.  Everything here runs on the one event loop: a
\* step is what a coroutine does from one await to the next.
\* ------------------------------------------------------------------

Without(seq, x) == SelectSeq(seq, LAMBDA y : y # x)
InSeq(seq, x) == \E i \in 1..Len(seq) : seq[i] = x

\* ViewerManager.register_viewer: _auto_allow_new is True
AllowedAfterRegister(id) == allowed \cup {id}

\* websocket_endpoint up to the receive loop: accept, take the viewer_id the
\* client sent, active_connections[viewer_id] = websocket, register_viewer
WsConnect(c, id) ==
    /\ connSt[c] = "none"
    /\ \A d \in Conns : d < c => connSt[d] # "none"
    /\ id <= c
    /\ connSt' = [connSt EXCEPT ![c] = "open"]
    /\ connId' = [connId EXCEPT ![c] = id]
    /\ acKeys' = IF InSeq(acKeys, id) THEN acKeys ELSE Append(acKeys, id)
    /\ acConn' = [acConn EXCEPT ![id] = c]
    /\ viewers' = viewers \cup {id}
    /\ allowed' = AllowedAfterRegister(id)
    /\ UNCHANGED <<rawSt, rawList, nMsg, bChan, bPc, bSnap, bIdx, pend, lastRecv,
                   sendEnded>>
    /\ UNCHANGED <<coreVars, revoked>>

\* websocket_endpoint, the finally block after the client's stream closed:
\* active_connections.pop(viewer_id), unregister_viewer(viewer_id)
WsClose(c) ==
    /\ connSt[c] = "open"
    /\ connSt' = [connSt EXCEPT ![c] = "closed"]
    /\ connId' = [connId EXCEPT ![c] = 0]
    /\ acKeys' = Without(acKeys, connId[c])
    /\ acConn' = [acConn EXCEPT ![connId[c]] = 0]
    /\ viewers' = viewers \ {connId[c]}
    /\ allowed' = allowed \ {connId[c]}
    /\ UNCHANGED <<rawSt, rawList, nMsg, bChan, bPc, bSnap, bIdx, pend, lastRecv,
                   sendEnded>>
    /\ UNCHANGED <<coreVars, revoked>>

\* ViewerManager.allow_viewer: the id joins _allowed_viewers only when it is
\* in _viewers
AllowedAfterAllowUnchecked(id) == allowed \cup {id}
AllowedAfterAllow(id) == IF id \in viewers THEN allowed \cup {id} ELSE allowed

\* ViewerManager.allow_viewer: its return value
AllowViewerReturns(id) == id \in viewers

\* ViewerManager.get_viewer_count
GetViewerCount ==
    [total |-> Cardinality(viewers),
     allowed |-> Cardinality(allowed),
     blocked |-> Cardinality(viewers) - Cardinality(allowed)]

\* ViewerManager.allow_viewer
AllowViewer(id) ==
    /\ allowed' = AllowedAfterAllow(id)
    /\ UNCHANGED <<connSt, connId, acKeys, acConn, viewers, rawSt, rawList, nMsg, bChan,
                   bPc, bSnap, bIdx, pend, lastRecv, sendEnded>>
    /\ UNCHANGED coreVars

\* ViewerManager.revoke_viewer
RevokeViewer(id) ==
    /\ allowed' = allowed \ {id}
    /\ UNCHANGED <<connSt, connId, acKeys, acConn, viewers, rawSt, rawList, nMsg, bChan,
                   bPc, bSnap, bIdx, pend, lastRecv, sendEnded>>
    /\ UNCHANGED coreVars

\* VideoStreamManager.connect
RawConnect(c) ==
    /\ rawSt[c] = "none"
    /\ rawSt' = [rawSt EXCEPT ![c] = "open"]
    /\ rawList' = Append(rawList, c)
    /\ UNCHANGED <<connSt, connId, acKeys, acConn, viewers, allowed, nMsg, bChan, bPc,
                   bSnap, bIdx, pend, lastRecv, sendEnded>>
    /\ UNCHANGED <<coreVars, revoked>>

\* VideoStreamManager.disconnect, called when the client's raw stream closed
RawClose(c) ==
    /\ rawSt[c] = "open"
    /\ rawSt' = [rawSt EXCEPT ![c] = "closed"]
    /\ rawList' = Without(rawList, c)
    /\ UNCHANGED <<connSt, connId, acKeys, acConn, viewers, allowed, nMsg, bChan, bPc,
                   bSnap, bIdx, pend, lastRecv, sendEnded>>
    /\ UNCHANGED <<coreVars, revoked>>

\* list(active_connections.items()) / self.active_connections[:]
EnhancedSnapshot == [i \in 1..Len(acKeys) |-> [id |-> acKeys[i], conn |-> acConn[acKeys[i]]]]
RawSnapshot == [i \in 1..Len(rawList) |-> [id |-> 0, conn |-> rawList[i]]]
Snapshot(chan) == IF chan = "enhanced" THEN EnhancedSnapshot ELSE RawSnapshot

\* ViewerManager.is_allowed, against the set A of allowed viewer_ids
is_allowed_ignored(A, id) == TRUE
is_allowed(A, id) == id \in A

\* the loop body sends to this entry: broadcast skips a viewer that is not
\* allowed, broadcast_raw_frame sends to every connection
Gate(chan, A, id) == chan = "raw" \/ is_allowed(A, id)

\* the index of the first entry from i on that the loop sends to
RECURSIVE NextEligible(_, _, _, _)
NextEligible(chan, A, snap, i) ==
    IF i > Len(snap) THEN i
    ELSE IF Gate(chan, A, snap[i].id) THEN i
    ELSE NextEligible(chan, A, snap, i + 1)

\* the coroutine of message m runs on from entry i to its next await: the
\* skipped entries, then the send it starts, or the end of the loop, where
\* the coroutine and its copied list are gone
Advance(m, chan, A, snap, i, P) ==
    LET j == NextEligible(chan, A, snap, i) IN
    IF j > Len(snap)
    THEN /\ bPc' = [bPc EXCEPT ![m] = "done"]
         /\ bIdx' = [bIdx EXCEPT ![m] = 0]
         /\ bSnap' = [bSnap EXCEPT ![m] = <<>>]
         /\ pend' = P
    ELSE /\ bPc' = [bPc EXCEPT ![m] = "sending"]
         /\ bIdx' = [bIdx EXCEPT ![m] = j]
         /\ bSnap' = [bSnap EXCEPT ![m] = snap]
         /\ pend' = [P EXCEPT ![<<chan, snap[j].conn>>] = Append(@, m)]

\* broadcast(message) called from the scheduler thread with connections
\* present, or the raw callback: the coroutine is handed to the event loop
Broadcast(chan) ==
    /\ nMsg < MaxMsgs
    /\ chan = "enhanced" => acKeys # <<>>
    /\ nMsg' = nMsg + 1
    /\ bChan' = [bChan EXCEPT ![nMsg + 1] = chan]
    /\ bPc' = [bPc EXCEPT ![nMsg + 1] = "queued"]
    /\ UNCHANGED <<connSt, connId, acKeys, acConn, viewers, allowed, rawSt, rawList,
                   bSnap, bIdx, pend, lastRecv, sendEnded>>
    /\ UNCHANGED <<coreVars, revoked>>

\* _send() / broadcast_raw_frame starts, in the order the coroutines were
\* handed over: copy the connections and run to the first awaited send
SendStart(m) ==
    /\ bPc[m] = "queued"
    /\ \A k \in Msgs : k < m => bPc[k] # "queued"
    /\ Advance(m, bChan[m], allowed, Snapshot(bChan[m]), 1, pend)
    /\ UNCHANGED <<connSt, connId, acKeys, acConn, viewers, allowed, rawSt, rawList, nMsg,
                   bChan, lastRecv, sendEnded>>
    /\ UNCHANGED <<coreVars, revoked>>

\* the except clauses of broadcast: TimeoutError is passed, every other
\* exception removes the viewer
EnhancedUnregisters(o) == o = "error"

\* the except clauses of broadcast_raw_frame: TimeoutError counts a dropped
\* frame, WebSocketDisconnect removes the connection, and so does another
\* exception when its text holds "closed" or "disconnect"
RawUnregisters(o) == o \in {"disconnect", "closed_error"}

\* the outcome makes the loop remove the subscriber
UnregisterOnAnyFailure(chan, o) == o # "ok"
UnregisterOn(chan, o) ==
    IF chan = "enhanced" THEN EnhancedUnregisters(o) ELSE RawUnregisters(o)

SocketOpen(chan, c) == IF chan = "enhanced" THEN connSt[c] = "open" ELSE rawSt[c] = "open"
OutcomesOf(chan) == IF chan = "enhanced" THEN EnhancedOutcomes ELSE RawOutcomes

\* the awaited send of message m ends with outcome o (the sends awaited on one
\* socket end in the order they began), its except clause runs, and the
\* coroutine goes on to the next entry
SendResolve(m, o) ==
    LET chan == bChan[m]
        e == bSnap[m][bIdx[m]]
        gone == UnregisterOn(chan, o)
        A == IF gone /\ chan = "enhanced" THEN allowed \ {e.id} ELSE allowed
        P == [pend EXCEPT ![<<chan, e.conn>>] = Tail(@)]
    IN
    /\ bPc[m] = "sending"
    /\ o \in OutcomesOf(chan)
    /\ Head(pend[<<chan, e.conn>>]) = m
    /\ o = "ok" => SocketOpen(chan, e.conn)
    /\ lastRecv' = IF o = "ok" /\ chan = "enhanced"
                   THEN [lastRecv EXCEPT ![e.conn] = m] ELSE lastRecv
    /\ sendEnded' = TRUE
    /\ allowed' = A
    /\ IF gone /\ chan = "enhanced"
       THEN /\ acKeys' = Without(acKeys, e.id)
            /\ acConn' = [acConn EXCEPT ![e.id] = 0]
            /\ viewers' = viewers \ {e.id}
            /\ UNCHANGED rawList
       ELSE /\ rawList' = IF gone THEN Without(rawList, e.conn) ELSE rawList
            /\ UNCHANGED <<acKeys, acConn, viewers>>
    /\ Advance(m, chan, A, bSnap[m], bIdx[m] + 1, P)
    /\ UNCHANGED <<connSt, connId, rawSt, nMsg, bChan>>
    /\ UNCHANGED <<coreVars, revoked>>

\* the /ws/stream channel: viewers come and go, the operator allows and
\* revokes, the scheduler broadcasts enhanced messages
NextView ==
    \/ \E c \in Conns, id \in ViewerIds : WsConnect(c, id)
    \/ \E c \in Conns : WsClose(c)
    \/ \E id \in ViewerIds : AllowViewer(id) /\ UNCHANGED revoked
    \/ \E id \in ViewerIds : RevokeViewer(id) /\ UNCHANGED revoked
    \/ Broadcast("enhanced")
    \/ \E m \in Msgs : SendStart(m)
    \/ \E m \in Msgs, o \in EnhancedOutcomes : SendResolve(m, o)

SpecView == Init /\ [][NextView]_vars

\* POST /api/viewers/allow and /api/viewers/revoke, with the operator's
\* revocations kept on record
OperatorAllows(id) ==
    /\ AllowViewer(id)
    /\ revoked' = revoked \ {id}

OperatorRevokes(id) ==
    /\ RevokeViewer(id)
    /\ revoked' = IF id \in viewers THEN revoked \cup {id} ELSE revoked

\* the /ws/stream channel with the operator's revocations on record; every
\* send goes through
NextRevoke ==
    \/ \E c \in Conns, id \in ViewerIds : WsConnect(c, id)
    \/ \E c \in Conns : WsClose(c)
    \/ \E id \in ViewerIds : OperatorAllows(id)
    \/ \E id \in ViewerIds : OperatorRevokes(id)
    \/ Broadcast("enhanced")
    \/ \E m \in Msgs : SendStart(m)
    \/ \E m \in Msgs : SendResolve(m, "ok")

SpecRevoke == Init /\ [][NextRevoke]_vars

\* both channels: the clients that hold a /ws/stream and a raw socket, the
\* operator allows and revokes, the scheduler broadcasts enhanced messages and
\* raw frames
NextFanout ==
    \/ \E c \in RawConns, id \in ViewerIds : WsConnect(c, id)
    \/ \E id \in ViewerIds : AllowViewer(id) /\ UNCHANGED revoked
    \/ \E id \in ViewerIds : RevokeViewer(id) /\ UNCHANGED revoked
    \/ \E c \in RawConns : RawConnect(c)
    \/ \E c \in RawConns : RawClose(c)
    \/ \E chan \in Channels : Broadcast(chan)
    \/ \E m \in Msgs : SendStart(m)
    \/ \E m \in Msgs, o \in EnhancedOutcomes \cup RawOutcomes : SendResolve(m, o)

SpecFanout == Init /\ [][NextFanout]_vars

\* ==================================================================
\* Properties
\* ==================================================================

InFlight == {s \in Scheds : workerPc[s] = "call"}
TakeStep(s) == workerPc[s] = "wait" /\ workerPc'[s] = "call"
FireStep(a) == wdPc[a] = "decided" /\ wdPc'[a] = "fired"
CameraStates == {"CAMERA_WAITING", "CAMERA_ACTIVE"}

\* C1: at any time at most one run_inference call has started and not returned,
\* counting the workers of every scheduler
C1_SingleInFlight == Cardinality(InFlight) <= 1

\* C2, as claimed: when frames were submitted while the worker was in a call,
\* the worker's next call is on the last of those frames
C2_NextCallOnLastBusyFrame ==
    [][\A s \in Scheds :
          (TakeStep(s) /\ busySub[s] # NoFrame) => workerFrame'[s] = busySub[s]]_vars

\* C2, amended: every call the worker starts is on the frame most recently
\* submitted by then (whether submitted during the previous call or after it
\* returned), and on a later frame than every earlier call
C2_LatestWins ==
    [][\A s \in Scheds :
          TakeStep(s) => /\ workerFrame'[s] = submitted[s]
                         /\ workerFrame'[s] > lastInferred[s]]_vars

\* C2 witness: a call on frame 3 after the call on frame 1 completed: frame 2
\* was overwritten in the slot and never passed to inference
C2_Witness ==
    \E s \in Scheds : /\ workerPc[s] = "call"
                      /\ workerFrame[s] = 3
                      /\ submitted[s] = 3
                      /\ last_ml_result[s].src = s
                      /\ last_ml_result[s].frame = 1

\* C3: a scheduler loop leaves through the shutdown check only when the manager
\* raised the shutdown signal to stop that scheduler
C3_NotStoppedByStaleShutdown ==
    \A s \in Scheds : brokeOnShutdown[s] => stopRequested[s]

\* C4: over any sequence of switches one and the same worker thread runs: no
\* second worker is ever started and none is stopped
C4_WorkerNeverRestarted ==
    /\ Cardinality({s \in Scheds : workerPc[s] # "none"}) <= 1
    /\ \A s \in Scheds : workerPc[s] # "done"

\* C5: once a switch_source replacing its source has returned, a scheduler loop
\* makes no further raw or enhanced emission
C5_NoEmissionAfterSwitch ==
    [][\A s \in Scheds :
          retired[s] => (lastRaw'[s] = lastRaw[s] /\ lastEnh'[s] = lastEnh[s])]_vars

\* C6: the result cache of a scheduler, and every enhanced emission it made,
\* holds only a result inferred from a frame of that scheduler's own attach
C6_NoStaleResult ==
    \A s \in Scheds :
        /\ last_ml_result[s] # NoResult => last_ml_result[s].src = s
        /\ lastEnh[s] # NoEmission => lastEnh[s].res.src = s

\* C6 witness: an enhanced emission under the second attach while the first
\* attach's scheduler holds a result of its own
C6_Witness ==
    /\ last_ml_result[1] # NoResult
    /\ lastEnh[2] # NoEmission

C8_ActiveStallTimesOut ==
    state = "CAMERA_ACTIVE" =>
        (frame_age # NoTs /\ frame_age <= CAMERA_TIMEOUT_SECONDS + POLL_SECONDS)

\* C9: a received frame moves CAMERA_WAITING to CAMERA_ACTIVE and changes no
\* other state, and the watchdog detaches a camera attach only when more than
\* 15 s have passed since the later of the attach and the last received frame
C9_FrameDrivenWatchdog ==
    [][/\ \A p \in Phones : PhoneFrame(p) =>
            state' = (IF state = "CAMERA_WAITING" THEN "CAMERA_ACTIVE" ELSE state)
       /\ \A a \in Scheds :
            (FireStep(a) /\ current_source_type = "camera") =>
                (frame_age # NoTs /\ frame_age > CAMERA_TIMEOUT_SECONDS)]_vars

\* C10: when the bound phone connection ends while the manager is in
\* CAMERA_WAITING or CAMERA_ACTIVE, the manager is left IDLE with no source bound
C10_DisconnectGoesIdle ==
    [][\A p \in Phones :
          (PhoneDisconnect(p) /\ active_phone = p /\ state \in CameraStates) =>
              (state' = "IDLE" /\ current_source' = 0)]_vars

AttachStep == mgrPc = "idle" /\ mgrPc' = "start"
SwitchReturns == mgrPc # "idle" /\ mgrPc' = "idle"

\* C11: from every state switch_source first stops and unbinds the bound source
\* and then binds the requested one, a camera attach entering CAMERA_WAITING;
\* a successful switch returns state VIDEO_ACTIVE and source "video", or state
\* CAMERA_WAITING and source "camera", and a video switch leaves the manager in
\* VIDEO_ACTIVE
C11_SwitchFromAnyState ==
    [][/\ AttachStep =>
            /\ current_source # 0 => srcStopped'[current_source]
            /\ current_source' = nSched + 1
            /\ current_source' # current_source
            /\ ~srcStopped'[current_source']
            /\ current_source_type' = mgrReq'
            /\ mgrReq' = "camera" => state' = "CAMERA_WAITING"
       /\ SwitchReturns =>
            /\ response'.success
            /\ response'.source = mgrReq
            /\ response'.state = (IF mgrReq = "video" THEN "VIDEO_ACTIVE"
                                  ELSE "CAMERA_WAITING")
            /\ mgrReq = "video" => state' = "VIDEO_ACTIVE"]_vars

\* C11 witness: a switch to video that found a camera bound, with a phone
\* connected, has returned: the camera source is stopped, the video one is bound
C11_Witness ==
    /\ mgrPc = "idle"
    /\ response = SwitchResponse("video", TRUE)
    /\ state = "VIDEO_ACTIVE"
    /\ current_source = 2
    /\ current_source_type = "video"
    /\ srcKind[1] = "camera"
    /\ srcStopped[1]
    /\ ~srcStopped[2]
    /\ \E p \in Phones : phoneSt[p] = "open"

\* C12: a switch to a video whose requested file does not exist never binds a
\* source or starts a scheduler, and returns success = false with state ERROR
C12_OpenFailureGoesError ==
    [][/\ mgrPath' = "missing" => (current_source' = 0 /\ mgrPc' = "idle")
       /\ (mgrPath = "missing" /\ SwitchReturns) =>
            (~response'.success /\ state' = "ERROR" /\ nSched' = nSched)]_vars

\* the manager, the scheduler loops and the workers, with an inference
\* collaborator that never answers: a call, once started, stays in flight
NextSwitch ==
    \/ \E t \in SourceTypes, requested, fallback \in BOOLEAN :
          SwitchSource(t, requested, fallback)
    \/ MgrStartScheduler
    \/ MgrJoin
    \/ \E s \in Scheds : SchedStart(s)
    \/ \E s \in Scheds : SchedRead(s)
    \/ \E s \in Scheds : SchedTick(s)
    \/ \E s \in Scheds : SchedClear(s)
    \/ \E s \in Scheds : SchedCleanup(s)
    \/ \E s \in Scheds : SchedJoin(s)
    \/ \E s \in Scheds : WorkerTake(s)
    \/ \E s \in Scheds : WorkerExit(s)

\* the switch_source thread is scheduled; nothing is assumed of the scheduler
\* loops and the workers, which may stop taking steps at any point (a loop
\* blocked in read(), a worker blocked in its call)
SpecSwitchFair ==
    /\ Init /\ [][NextSwitch]_vars
    /\ WF_vars(MgrStartScheduler)
    /\ WF_vars(MgrJoin)

\* C13: every switch_source call in progress returns, whatever the scheduler
\* loops and the workers do or fail to do
C13_SwitchAlwaysReturns == (mgrPc # "idle") ~> (mgrPc = "idle")

\* C13 witness: the manager waits in its join while the worker of the running
\* scheduler is inside an inference call and the loop waits for a frame
C13_Witness ==
    /\ mgrPc = "join"
    /\ workerPc[scheduler] = "call"
    /\ schedPc[scheduler] = "read"

\* the entry whose send the coroutine of m awaits
Awaited(m) == bSnap[m][bIdx[m]]

\* the entries the coroutine of m passes in this step: the list it iterates
\* over, the index of the first entry and the index it stops at
StepSnap(m) == IF bPc[m] = "queued" THEN Snapshot(bChan[m]) ELSE bSnap[m]
StepFrom(m) == IF bPc[m] = "queued" THEN 1 ELSE bIdx[m] + 1
StepTo(m) == IF bPc'[m] = "done" THEN Len(StepSnap(m)) + 1 ELSE bIdx'[m]

\* C14: an enhanced broadcast starts the send to a viewer exactly when the
\* viewer's allowed bit is true at that moment: it passes over the viewers
\* whose bit is false and sends to one whose bit is true; revoking a viewer
\* leaves it registered with its connection
C14_EnhancedGate ==
    [][/\ \A m \in Msgs :
            (bChan[m] = "enhanced" /\ bPc'[m] # bPc[m] /\ bPc[m] # "none") =>
                /\ \A k \in StepFrom(m)..(StepTo(m) - 1) :
                       StepSnap(m)[k].id \notin allowed'
                /\ StepTo(m) <= Len(StepSnap(m)) =>
                       StepSnap(m)[StepTo(m)].id \in allowed'
       /\ (allowed' # allowed /\ allowed' \subseteq allowed /\ viewers' = viewers) =>
            (acKeys' = acKeys /\ acConn' = acConn /\ connSt' = connSt)]_vars

\* C14 witness: the first broadcast passed over the only viewer there is
\* (revoked) and ended without a send; the second, after allow_viewer, is
\* sending to it
C14_Witness ==
    /\ connSt[1] = "open"
    /\ \A c \in Conns : c # 1 => connSt[c] = "none"
    /\ bChan[1] = "enhanced"
    /\ bPc[1] = "done"
    /\ ~sendEnded
    /\ bPc[2] = "sending"
    /\ pend[<<"enhanced", 1>>] = <<2>>

\* C15: no raw frame is delivered to the raw socket of a client whose viewer is
\* registered with its allowed bit false
C15_RawGate ==
    [][\A m \in Msgs :
          (bChan[m] = "raw" /\ SendResolve(m, "ok")) =>
              (connSt[Awaited(m).conn] = "open" =>
                   connId[Awaited(m).conn] \in allowed)]_vars

\* the viewer of client c is registered and the connection map holds c's socket
Registered(c) == connId[c] \in viewers /\ acConn[connId[c]] = c
RegisteredAfter(c) == connId'[c] = connId[c] /\ connId[c] \in viewers'
                      /\ acConn'[connId[c]] = c

\* C16: a registered viewer with its stream open stays registered, with its own
\* connection in the map, through every step but the closing of its own stream
\* and a send to it that fails with an I/O error
C16_ViewerLifetime ==
    [][\A c \in Conns :
          (connSt[c] = "open" /\ Registered(c) /\ ~RegisteredAfter(c)) =>
              \/ WsClose(c)
              \/ \E m \in Msgs : bChan[m] = "enhanced" /\ SendResolve(m, "error")
                                 /\ Awaited(m).conn = c]_vars

\* C17: a send that runs into its deadline changes neither the registry, the
\* allowed bits nor the connections of either channel: the subscriber is in the
\* list the next broadcast copies
C17_TimeoutDropsOnly ==
    [][\A m \in Msgs :
          SendResolve(m, "timeout") =>
              /\ acKeys' = acKeys /\ acConn' = acConn
              /\ viewers' = viewers /\ allowed' = allowed
              /\ rawList' = rawList
              /\ lastRecv' = lastRecv]_vars

\* C17 witness: the send of the first broadcast to the only viewer ended
\* without delivery and without unregistering it, so in the deadline; the
\* second broadcast is sending to the same viewer
C17_Witness ==
    /\ connSt[1] = "open"
    /\ \A c \in Conns : c # 1 => connSt[c] = "none"
    /\ Registered(1)
    /\ bChan[1] = "enhanced"
    /\ bPc[1] = "done"
    /\ sendEnded
    /\ lastRecv[1] = 0
    /\ bChan[2] = "enhanced"
    /\ bPc[2] = "sending"
    /\ pend[<<"enhanced", 1>>] = <<2>>

\* C18: a send that fails with anything but the deadline removes the
\* subscriber from the connections later broadcasts copy, on both channels,
\* and an enhanced one also from the registry
C18_IoErrorUnregisters ==
    [][\A m \in Msgs, o \in (EnhancedOutcomes \cup RawOutcomes) \ {"ok", "timeout"} :
          SendResolve(m, o) =>
              IF bChan[m] = "enhanced"
              THEN /\ ~InSeq(acKeys', Awaited(m).id)
                   /\ Awaited(m).id \notin viewers'
              ELSE ~InSeq(rawList', Awaited(m).conn)]_vars

\* C19: while the send to one subscriber is awaited, no other subscriber the
\* same broadcast will send to is still waiting for its send to start
C19_SlowConsumerIsolation ==
    \A m \in Msgs :
        bPc[m] = "sending" =>
            \A j \in (bIdx[m] + 1)..Len(bSnap[m]) :
                ~Gate(bChan[m], allowed, bSnap[m][j].id)

\* C20: every viewer receives the enhanced messages in the order of the
\* broadcast calls
C20_PerViewerOrder ==
    [][\A c \in Conns : lastRecv'[c] # lastRecv[c] => lastRecv'[c] > lastRecv[c]]_vars

\* ---- the phone endpoint ----

\* C21: at most one phone connection is accepted and not closed, so that only
\* one can inject frames
C21_PhoneSingleton ==
    \A p, q \in Phones : (phoneSt[p] = "open" /\ phoneSt[q] = "open") => p = q

\* C22: a frame message is answered with throttle exactly when it comes less
\* than half a frame interval after the last frame that was not throttled,
\* and a throttled frame does not reach the phone source
C22_PhoneRateLimit ==
    [][\A p \in Phones, decodes \in BOOLEAN :
          PhoneMessage(p, decodes) =>
              /\ phoneReply'[p] = "throttle" <=>
                     (sinceFrame[p] # NoTs /\ 2 * sinceFrame[p] < FRAME_INTERVAL)
              /\ phoneReply'[p] = "throttle" =>
                     (phoneSlot' = phoneSlot /\ frame_age' = frame_age
                      /\ sinceFrame' = sinceFrame)]_vars

\* C22 witness: a frame one tick after an injected one was throttled
C22_Witness ==
    \E p \in Phones :
        /\ phoneReply[p] = "throttle"
        /\ sinceFrame[p] = 1
        /\ phoneSlot

\* ---- the inference client and safe mode ----

\* the step is a run_inference call of the worker that reached the POST, and
\* the POST ended as r
PostEnded(r) ==
    \E s \in Scheds, h \in HealthOutcomes, quick \in BOOLEAN :
        /\ WorkerInfer(s, h, r, quick)
        /\ RunInference(ml_available, consecutive_failures, probeDue, h, r).posted

\* the step is a run_inference call that ended in the Timeout clause
TimedOutCall == PostEnded("timeout") \/ PostEnded("connect_timeout")

\* the step is an enhanced emission of scheduler s
Emits(s) == lastEnh'[s] # lastEnh[s]

\* C23: a call that times out turns the client from available to unavailable
\* only as the second timeout in a row, or a later one
C23_ConsecutiveTimeouts ==
    [][(TimedOutCall /\ ml_available /\ ~ml_available') =>
           timeoutRun' >= MAX_FAILURES_BEFORE_SAFE_MODE]_vars

\* C23 as amended: after a call that times out the client is unavailable when
\* consecutive_failures has reached the threshold and as available as before
\* (after the probe, if one was made) when it has not; a successful response
\* leaves the count at 0 and the client available, so that a timeout right
\* after it leaves the count at 1
C23_ConsecutiveFailures ==
    [][/\ TimedOutCall =>
             /\ consecutive_failures' >= MAX_FAILURES_BEFORE_SAFE_MODE => ~ml_available'
             /\ (consecutive_failures' < MAX_FAILURES_BEFORE_SAFE_MODE /\ ml_available)
                    => ml_available'
             /\ (consecutive_failures = 0 /\ ml_available) =>
                    (consecutive_failures' = 1 /\ ml_available')
       /\ (PostEnded("success") \/ PostEnded("not_success")) =>
             (consecutive_failures' = 0 /\ ml_available')]_vars

\* C23 witness: one timeout in a row, and with it the count has reached the
\* threshold and the client is unavailable
C23_Witness ==
    /\ timeoutRun = 1
    /\ consecutive_failures = MAX_FAILURES_BEFORE_SAFE_MODE
    /\ ~ml_available

\* C24: every run_inference call returns a result to the worker, which stores
\* it for the frame of the call and announces nothing; when the probe failed
\* or the POST ended in a timeout, a connection error or another exception,
\* the result is the placeholder; a connection error leaves the client
\* unavailable whatever the count
C24_FailuresNeverPropagate ==
    [][\A s \in Scheds, h \in HealthOutcomes, r \in PostOutcomes, quick \in BOOLEAN :
          WorkerInfer(s, h, r, quick) =>
              /\ last_ml_result'[s].frame = workerFrame[s]
              /\ nAnnounce' = nAnnounce
              /\ in_safe_mode' = in_safe_mode
              /\ (~RunInference(ml_available, consecutive_failures, probeDue, h, r).posted
                  \/ r \notin {"success", "not_success"}) =>
                     /\ last_ml_result'[s].state = "SAFE_MODE"
                     /\ last_ml_result'[s].ml_available = FALSE
                     /\ last_ml_result'[s].detections = "empty"
              /\ PostEnded("connection_error") => ~ml_available']_vars

\* C24 witness: the engine answered a call and an emission carried its result;
\* a later call left the client unavailable with no failure counted, which
\* only the connection error clause does, and the placeholder is stored
C24_Witness ==
    \E s \in Scheds :
        /\ lastEnh[s].res.state = "NORMAL"
        /\ last_ml_result[s].state = "SAFE_MODE"
        /\ ~last_ml_result[s].ml_available
        /\ ~ml_available
        /\ consecutive_failures = 0

\* C25: an enhanced emission made after two timeouts in a row carries state
\* SAFE_MODE and ml_available false
C25_SafeModeEmission ==
    [][\A s \in Scheds :
          (Emits(s) /\ timeoutRun = MAX_FAILURES_BEFORE_SAFE_MODE) =>
              /\ lastEnh'[s].res.state = "SAFE_MODE"
              /\ lastEnh'[s].ml_available = FALSE]_vars

\* C26: a call whose probe, if it makes one, and whose POST succeed leaves the
\* client available and a NORMAL result in the cache, whatever the client's
\* state was; every emission made from that result carries state NORMAL and
\* ml_available true
C26_SafeModeRecovery ==
    [][/\ PostEnded("success") =>
             /\ ml_available'
             /\ \A s \in Scheds :
                    workerPc[s] = "call" => last_ml_result'[s].state = "NORMAL"
       /\ \A s \in Scheds :
             (Emits(s) /\ last_ml_result[s].state = "NORMAL") =>
                 /\ lastEnh'[s].res.state = "NORMAL"
                 /\ lastEnh'[s].ml_available]_vars

\* C26 witness: the last emission carried a SAFE_MODE placeholder, and a call
\* since has left the client available and a NORMAL result in the cache
C26_Witness ==
    \E s \in Scheds :
        /\ lastEnh[s].res.state = "SAFE_MODE"
        /\ ~lastEnh[s].res.ml_available
        /\ last_ml_result[s].state = "NORMAL"
        /\ ml_available

\* C27: a call that turns the client from available to unavailable hands one
\* "safe_mode" system message to the result callback
C27_SafeModeAnnounced ==
    [][(ml_available /\ ~ml_available') => nAnnounce' = nAnnounce + 1]_vars

\* C28: a call of the inference module that returns late instead of raising
\* leaves the scheduler in safe mode
C28_SlowInferenceEntersSafeMode ==
    [][\A s \in Scheds : WorkerReturn(s, "slow") => in_safe_mode'[s]]_vars

C30_NeverBlocksOnWorker ==
    /\ [](\A s \in Scheds :
             /\ schedPc[s] = "tick" => ENABLED SchedTick(s)
             /\ schedPc[s] = "clear" => ENABLED SchedClear(s))
    /\ [][\A s \in Scheds :
             (SchedTick(s) /\ ~shutdown_event) => lastRaw'[s] = curFrame[s]]_vars

\* C30 witness: the raw emission of a frame later than the one the worker's
\* call, still in flight, runs on
C30_Witness ==
    \E s \in Scheds :
        /\ workerPc[s] = "call"
        /\ lastRaw[s] > workerFrame[s]

\* C33: while a run_inference call is in flight the ml_ready flag of its
\* scheduler is clear
C33_ReadyClearDuringCall ==
    \A s \in Scheds : workerPc[s] = "call" => ~ml_ready[s]

\* C39: the allowed viewer ids are registered viewer ids, so get_viewer_count
\* reports total = allowed + blocked with blocked >= 0; allow_viewer on an id
\* that is not registered returns False and leaves the registry as it was
C39_RegistryInvariant ==
    /\ [](/\ allowed \subseteq viewers
          /\ GetViewerCount.blocked >= 0
          /\ GetViewerCount.total = GetViewerCount.allowed + GetViewerCount.blocked)
    /\ [][\A id \in ViewerIds :
             (AllowViewer(id) /\ id \notin viewers) =>
                 /\ ~AllowViewerReturns(id)
                 /\ allowed' = allowed
                 /\ viewers' = viewers]_vars

\* C39 witness: a viewer has unregistered, and a registered viewer is blocked
C39_Witness ==
    /\ \E c \in Conns : connSt[c] = "closed"
    /\ GetViewerCount.total >= 1
    /\ GetViewerCount.blocked >= 1

\* the coroutine of message m begins the send of an enhanced message in this step
BeginsSend(m) ==
    /\ bChan[m] = "enhanced"
    /\ bPc'[m] = "sending"
    /\ bPc[m] # "sending" \/ bIdx'[m] # bIdx[m]

\* C40: from the operator's revoke_viewer of a viewer_id until the operator's
\* allow_viewer for it, no send of a data message begins to a connection
\* registered under that id, whatever disconnects and registrations under the
\* id happen in between
C40_RevocationSticky ==
    [][\A m \in Msgs :
          BeginsSend(m) => bSnap'[m][bIdx'[m]].id \notin revoked']_vars

\* C38: the teardown of a phone connection that a newer, still bound
\* connection evicted does not stop the shared phone source
C38_EvictedTeardownKeepsSource ==
    [][\A p \in Phones :
          (/\ PhoneDisconnect(p)
           /\ phoneSt[p] = "closed"
           /\ active_phone \notin {0, p}
           /\ phoneSt[active_phone] = "open") => srcStopped' = srcStopped]_vars

\* C36: whenever no switch_source call is in progress, the state and the bound
\* source agree: VIDEO_ACTIVE has the video source bound, CAMERA_WAITING and
\* CAMERA_ACTIVE the camera source, and IDLE no source and no last_frame_ts
C36_StateAgreesWithSource ==
    mgrPc = "idle" =>
        /\ state = "VIDEO_ACTIVE" => current_source_type = "video"
        /\ state \in CameraStates => current_source_type = "camera"
        /\ state = "IDLE" => (current_source = 0 /\ frame_age = NoTs)

\* the watchdog threads that are still in their polling loop
Polling == {a \in Scheds : wdPc[a] \in {"sleep", "decided"}}

\* C37: the watchdog armed by one attach never detaches the source of a later
\* attach, and whenever no switch_source call is in progress at most one
\* watchdog thread is still polling
C37_WatchdogOwnAttach ==
    /\ [][\A a \in Scheds : FireStep(a) => current_source \in {0, a}]_vars
    /\ [](mgrPc = "idle" => Cardinality(Polling) <= 1)

\* C34: whatever the outcome of an inference call, the worker is back in its
\* loop afterwards and ml_ready is set
C34_WorkerSurvives ==
    [][\A s \in Scheds :
          (workerPc[s] = "call" /\ workerPc'[s] # "call") =>
              (workerPc'[s] = "wait" /\ ml_ready'[s])]_vars

\* C35: whenever the slot holds a frame, the worker is not in a call and
\* ml_stop is not set, the worker goes on to start a call (or ml_stop is set)
C35_NoLostWakeup ==
    \A s \in Scheds :
        (/\ latest_frame[s] # NoFrame
         /\ workerPc[s] \notin {"none", "call"}
         /\ ~ml_stop[s])
            ~> (workerPc[s] = "call" \/ ml_stop[s])

C32_PaceWithoutDrift ==
    [][/\ PaceSleep =>
            sleepLeft' = IF frame_interval - sinceTick > 0
                         THEN frame_interval - sinceTick ELSE 0
       /\ PaceTick => (sinceTick = NoTs \/ sinceTick >= frame_interval)]_vars

====
